---- MODULE Spec2Model ----
(***************************************************************************)
(* zeek-viz: the in-memory session store of handlers.API (the map of       *)
(* uploaded files and the current-file pointer), the line parser that      *)
(* feeds it and the handlers that read and change it.                      *)
(*                                                                         *)
(* Conventions.                                                            *)
(*  - A Go string is a TLA+ string; a file ID (the 16 hex digits of a      *)
(*    SHA-256 digest) is the tuple <<filename, uploadTime>> that was        *)
(*    hashed, and the empty ID "" is the empty tuple.                      *)
(*  - A JSON number (a float64) is an integer count of 1/NumScale units,   *)
(*    so that fractions and Go's int(x) truncation exist in the model.     *)
(*  - A nil slice and an empty slice are both the empty sequence.          *)
(*  - A response is the record [op, req, status, msg, out]; status keeps   *)
(*    the name of the net/http status constant.                            *)
(***************************************************************************)
EXTENDS Integers, Sequences, FiniteSets, TLC

VARIABLES
    files,          \* API.files: file ID -> FileData
    currentFileID,  \* API.currentFileID
    logPath,        \* API.logPath
    now,            \* the wall clock read by time.Now().Unix()
    last,           \* the response of the handler that ran last
    procs           \* the handlers in flight: where each is, and its local variables

vars == <<files, currentFileID, logPath, now, last, procs>>

-----------------------------------------------------------------------------
(* Bounds of the model *)

MaxTime == 1      \* the clock runs over 0..MaxTime seconds
MaxFiles == 2     \* an ingest that would store more files than this is not taken
NumScale == 2     \* a JSON number is a count of 1/NumScale units
NumProcs == 2     \* the handlers that can be in flight at once

Filenames == {"conn.log", "dns.log"}
LogPaths == {"", "conn.log"}
Times == 0..MaxTime

-----------------------------------------------------------------------------
(* JSON values and input lines *)

JNum(n) == [t |-> "number", s |-> "", n |-> n, b |-> FALSE]
JStr(s) == [t |-> "string", s |-> s, n |-> 0, b |-> FALSE]
JBool(b) == [t |-> "bool", s |-> "", n |-> 0, b |-> b]

NoRaw == [k \in {} |-> JNum(0)]

BlankLine == [kind |-> "blank", raw |-> NoRaw]
TextLine == [kind |-> "text", raw |-> NoRaw]
LongLine == [kind |-> "long", raw |-> NoRaw]
JsonLine(raw) == [kind |-> "json", raw |-> raw]

\* {"ts":100,"uid":"C1","id.orig_h":"A","id.resp_h":"B","proto":"tcp",
\*  "orig_bytes":10,"resp_bytes":0,"conn_state":"SF"}
Json1 ==
    JsonLine([ts |-> JNum(100 * NumScale), uid |-> JStr("C1"),
              orig_h |-> JStr("A"), resp_h |-> JStr("B"), proto |-> JStr("tcp"),
              orig_bytes |-> JNum(10 * NumScale), resp_bytes |-> JNum(0),
              conn_state |-> JStr("SF")])

\* {"ts":105.5,"id.orig_h":"B","id.resp_h":"A","proto":"udp","service":7,
\*  "orig_bytes":"5","resp_bytes":7.5,"conn_state":"S0","junk":true}
Json2 ==
    JsonLine([ts |-> JNum(105 * NumScale + 1),
              orig_h |-> JStr("B"), resp_h |-> JStr("A"), proto |-> JStr("udp"),
              service |-> JNum(7 * NumScale), orig_bytes |-> JStr("5"),
              resp_bytes |-> JNum(7 * NumScale + 1),
              conn_state |-> JStr("S0"), junk |-> JBool(TRUE)])

\* The input files of the model: one with no line that parses, one with two
\* records among other lines, and one the scanner gives up on.
JunkFile == <<BlankLine, TextLine>>
MixedFile == <<Json1, TextLine, BlankLine, Json2>>
LongFile == <<Json1, LongLine>>
SampleFiles == {JunkFile, MixedFile, LongFile}

-----------------------------------------------------------------------------
(* models.Connection and models.UnmarshalConnection *)

\* Go's int(x) of a float64: truncation toward zero.
IntOf(n) == IF n >= 0 THEN n \div NumScale ELSE -((-n) \div NumScale)

StringField(raw, k) ==
    IF k \in DOMAIN raw /\ raw[k].t = "string" THEN raw[k].s ELSE ""

FloatField(raw, k) ==
    IF k \in DOMAIN raw /\ raw[k].t = "number" THEN raw[k].n ELSE 0

IntField(raw, k) ==
    IF k \in DOMAIN raw /\ raw[k].t = "number" THEN IntOf(raw[k].n) ELSE 0

BoolField(raw, k) ==
    IF k \in DOMAIN raw /\ raw[k].t = "bool" THEN raw[k].b ELSE FALSE

\* models.Connection as parseStringFields, parseIntegerFields, parseFloatFields
\* and parseBooleanFields fill it; the key orig_h stands for "id.orig_h", and
\* so on for the other keys with a dot.
ParseFields(raw) ==
    [Timestamp   |-> FloatField(raw, "ts"),
     UID         |-> StringField(raw, "uid"),
     OrigHost    |-> StringField(raw, "orig_h"),
     OrigPort    |-> IntField(raw, "orig_p"),
     RespHost    |-> StringField(raw, "resp_h"),
     RespPort    |-> IntField(raw, "resp_p"),
     Protocol    |-> StringField(raw, "proto"),
     Service     |-> StringField(raw, "service"),
     Duration    |-> FloatField(raw, "duration"),
     OrigBytes   |-> IntField(raw, "orig_bytes"),
     RespBytes   |-> IntField(raw, "resp_bytes"),
     ConnState   |-> StringField(raw, "conn_state"),
     LocalOrig   |-> BoolField(raw, "local_orig"),
     LocalResp   |-> BoolField(raw, "local_resp"),
     MissedBytes |-> IntField(raw, "missed_bytes"),
     History     |-> StringField(raw, "history"),
     OrigPackets |-> IntField(raw, "orig_pkts"),
     OrigIPBytes |-> IntField(raw, "orig_ip_bytes"),
     RespPackets |-> IntField(raw, "resp_pkts"),
     RespIPBytes |-> IntField(raw, "resp_ip_bytes"),
     IPProtocol  |-> IntField(raw, "ip_proto")]

\* A string field of another JSON type fails the whole line.
UnmarshalConnectionStrict(line) ==
    LET strings == {"uid", "orig_h", "resp_h", "proto", "service", "conn_state", "history"}
        bad == \E k \in DOMAIN line.raw \cap strings : line.raw[k].t # "string"
    IN  IF line.kind = "json" /\ ~bad
        THEN [err |-> FALSE, conn |-> ParseFields(line.raw)]
        ELSE [err |-> TRUE, conn |-> ParseFields(NoRaw)]

UnmarshalConnection(line) ==
    IF line.kind = "json"
    THEN [err |-> FALSE, conn |-> ParseFields(line.raw)]
    ELSE [err |-> TRUE, conn |-> ParseFields(NoRaw)]

TotalBytes(c) == c.OrigBytes + c.RespBytes

-----------------------------------------------------------------------------
(* API.LoadConnectionsFromReader *)

\* The scan ends at the first line that does not parse.
RECURSIVE ScanLinesStopAtBad(_, _)
ScanLinesStopAtBad(lines, connections) ==
    IF lines = <<>>
    THEN [err |-> FALSE, connections |-> connections]
    ELSE LET line == Head(lines)
             u == UnmarshalConnection(line)
         IN  IF line.kind = "long"
             THEN [err |-> TRUE, connections |-> <<>>]
             ELSE IF line.kind = "blank"
             THEN ScanLinesStopAtBad(Tail(lines), connections)
             ELSE IF u.err
             THEN [err |-> FALSE, connections |-> connections]
             ELSE ScanLinesStopAtBad(Tail(lines), Append(connections, u.conn))

RECURSIVE ScanLines(_, _)
ScanLines(lines, connections) ==
    IF lines = <<>>
    THEN [err |-> FALSE, connections |-> connections]
    ELSE LET line == Head(lines)
             u == UnmarshalConnection(line)
         IN  IF line.kind = "long"
             THEN [err |-> TRUE, connections |-> <<>>]
             ELSE IF line.kind = "blank"
             THEN ScanLines(Tail(lines), connections)
             ELSE IF u.err
             THEN ScanLines(Tail(lines), connections)
             ELSE ScanLines(Tail(lines), Append(connections, u.conn))

LoadConnectionsFromReader(lines) == ScanLines(lines, <<>>)

-----------------------------------------------------------------------------
(* Helpers for Go maps, slices and integers *)

MapPut(m, k, v) == [x \in DOMAIN m \cup {k} |-> IF x = k THEN v ELSE m[x]]

\* m[k]++ on a map[string]int
Incr(m, k) == MapPut(m, k, IF k \in DOMAIN m THEN m[k] + 1 ELSE 1)

EmptyMap == [k \in {} |-> 0]

\* The orders in which a range over a map with key set S can yield its keys.
Orderings(S) ==
    {o \in [1..Cardinality(S) -> S] : \A i, j \in DOMAIN o : i # j => o[i] # o[j]}

\* Go's integer division, which truncates toward zero (b > 0).
GoDiv(a, b) == IF a >= 0 THEN a \div b ELSE -((-a) \div b)

SetMin(S) == CHOOSE m \in S : \A x \in S : m <= x
SetMax(S) == CHOOSE m \in S : \A x \in S : m >= x

RECURSIVE SortedSeq(_)
SortedSeq(S) == IF S = {} THEN <<>> ELSE <<SetMin(S)>> \o SortedSeq(S \ {SetMin(S)})

HasPrefix(s, prefix) == Len(s) >= Len(prefix) /\ SubSeq(s, 1, Len(prefix)) = prefix

Digits == {"0", "1", "2", "3", "4", "5", "6", "7", "8", "9"}

DigitValue(c) ==
    CASE c = "0" -> 0 [] c = "1" -> 1 [] c = "2" -> 2 [] c = "3" -> 3 [] c = "4" -> 4
      [] c = "5" -> 5 [] c = "6" -> 6 [] c = "7" -> 7 [] c = "8" -> 8 [] c = "9" -> 9

RECURSIVE ParseDigits(_, _)
ParseDigits(s, acc) ==
    IF s = "" THEN [ok |-> TRUE, v |-> acc]
    ELSE IF Head(s) \notin Digits THEN [ok |-> FALSE, v |-> 0]
    ELSE ParseDigits(Tail(s), acc * 10 + DigitValue(Head(s)))

\* strconv.ParseInt(s, 10, 64), for strings too short to leave the int64 range
ParseInt(s) ==
    LET signed == s # "" /\ Head(s) \in {"+", "-"}
        body == IF signed THEN Tail(s) ELSE s
        d == ParseDigits(body, 0)
    IN  IF body = "" \/ ~d.ok THEN [ok |-> FALSE, v |-> 0]
        ELSE [ok |-> TRUE, v |-> IF signed /\ Head(s) = "-" THEN -d.v ELSE d.v]

-----------------------------------------------------------------------------
(* The filters *)

\* The timestamp is compared with the bounds as it is, fraction included.
applyTimeFilterUntruncated(connections, startTime, endTime) ==
    LET start == ParseInt(startTime)
        end == ParseInt(endTime)
        Keep(c) == c.Timestamp >= start.v * NumScale /\ c.Timestamp <= end.v * NumScale
    IN  IF startTime = "" \/ endTime = "" THEN connections
        ELSE IF ~start.ok \/ ~end.ok THEN connections
        ELSE SelectSeq(connections, Keep)

applyTimeFilter(connections, startTime, endTime) ==
    LET start == ParseInt(startTime)
        end == ParseInt(endTime)
        Keep(c) == IntOf(c.Timestamp) >= start.v /\ IntOf(c.Timestamp) <= end.v
    IN  IF startTime = "" \/ endTime = "" THEN connections
        ELSE IF ~start.ok \/ ~end.ok THEN connections
        ELSE SelectSeq(connections, Keep)

\* "all" is compared with the records' protocol like any other value.
applyProtocolFilterNoSentinel(connections, protocol) ==
    LET Keep(c) == c.Protocol = protocol
    IN  IF protocol = "" THEN connections ELSE SelectSeq(connections, Keep)

applyProtocolFilter(connections, protocol) ==
    LET Keep(c) == c.Protocol = protocol
    IN  IF protocol = "" \/ protocol = "all" THEN connections
        ELSE SelectSeq(connections, Keep)

applyConnStateFilter(connections, connState) ==
    LET Keep(c) == c.ConnState = connState
    IN  IF connState = "" \/ connState = "all" THEN connections
        ELSE SelectSeq(connections, Keep)

\* The three filters as GetConnections and GetNodes chain them.
applyFilters(connections, q) ==
    applyConnStateFilter(
        applyProtocolFilter(
            applyTimeFilter(connections, q.start, q.end), q.protocol), q.conn_state)

-----------------------------------------------------------------------------
(* The graph *)

bytesScaleFactor == 1000
timelineBucketSec == 10

LocalPrefixes ==
    {"192.168.", "10.", "172.16.", "172.17.", "172.18.", "172.19.", "172.20.",
     "172.21.", "172.22.", "172.23.", "172.24.", "172.25.", "172.26.", "172.27.",
     "172.28.", "172.29.", "172.30.", "172.31.", "127.", "fe80::", "::1"}

IsLocalIP(ip) ==
    IF ip = "" THEN FALSE ELSE \E prefix \in LocalPrefixes : HasPrefix(ip, prefix)

\* A host that has a node already is not counted again.
processNodeFirstSightOnly(nodeMap, host, totalBytes) ==
    IF host \in DOMAIN nodeMap THEN nodeMap
    ELSE MapPut(nodeMap, host,
            [ID |-> host, Label |-> host, IsLocal |-> IsLocalIP(host),
             Connections |-> 1, TotalBytes |-> totalBytes])

processNode(nodeMap, host, totalBytes) ==
    LET seen == IF host \in DOMAIN nodeMap THEN nodeMap
                ELSE MapPut(nodeMap, host,
                        [ID |-> host, Label |-> host, IsLocal |-> IsLocalIP(host),
                         Connections |-> 0, TotalBytes |-> 0])
    IN  [seen EXCEPT ![host].Connections = @ + 1, ![host].TotalBytes = @ + totalBytes]

edgeKey(conn) == conn.OrigHost \o "-" \o conn.RespHost \o "-" \o conn.Protocol

\* float64(totalBytes) / bytesScaleFactor, kept as the fraction
Weight(totalBytes) == [num |-> totalBytes, den |-> bytesScaleFactor]

\* Every record of the key writes its service into the edge.
processEdgeLastService(edgeMap, conn) ==
    LET key == edgeKey(conn)
        seen == IF key \in DOMAIN edgeMap THEN edgeMap
                ELSE MapPut(edgeMap, key,
                        [Source |-> conn.OrigHost, Target |-> conn.RespHost,
                         Protocol |-> conn.Protocol, Service |-> conn.Service,
                         Count |-> 0, TotalBytes |-> 0, Weight |-> Weight(0)])
        total == seen[key].TotalBytes + TotalBytes(conn)
    IN  [seen EXCEPT ![key].Count = @ + 1, ![key].TotalBytes = total,
                     ![key].Weight = Weight(total), ![key].Service = conn.Service]

processEdge(edgeMap, conn) ==
    LET key == edgeKey(conn)
        seen == IF key \in DOMAIN edgeMap THEN edgeMap
                ELSE MapPut(edgeMap, key,
                        [Source |-> conn.OrigHost, Target |-> conn.RespHost,
                         Protocol |-> conn.Protocol, Service |-> conn.Service,
                         Count |-> 0, TotalBytes |-> 0, Weight |-> Weight(0)])
        total == seen[key].TotalBytes + TotalBytes(conn)
    IN  [seen EXCEPT ![key].Count = @ + 1, ![key].TotalBytes = total,
                     ![key].Weight = Weight(total)]

RECURSIVE GraphMaps(_, _, _)
GraphMaps(connections, nodeMap, edgeMap) ==
    IF connections = <<>>
    THEN [nodeMap |-> nodeMap, edgeMap |-> edgeMap]
    ELSE LET conn == Head(connections)
             totalBytes == TotalBytes(conn)
         IN  GraphMaps(Tail(connections),
                 processNode(processNode(nodeMap, conn.OrigHost, totalBytes),
                             conn.RespHost, totalBytes),
                 processEdge(edgeMap, conn))

\* The graphs buildNodesAndEdges can return: the two maps' values, each in an
\* order a range over the map can yield.
buildNodesAndEdges(connections) ==
    LET g == GraphMaps(connections, EmptyMap, EmptyMap)
    IN  {[Nodes |-> [i \in DOMAIN no |-> g.nodeMap[no[i]]],
          Edges |-> [i \in DOMAIN eo |-> g.edgeMap[eo[i]]]] :
            no \in Orderings(DOMAIN g.nodeMap), eo \in Orderings(DOMAIN g.edgeMap)}

-----------------------------------------------------------------------------
(* The timeline *)

\* A record of a bucket that has a point replaces the point.
RECURSIVE TimelineMapOverwrite(_, _)
TimelineMapOverwrite(connections, timelineMap) ==
    IF connections = <<>> THEN timelineMap
    ELSE LET conn == Head(connections)
             bucket == GoDiv(IntOf(conn.Timestamp), timelineBucketSec) * timelineBucketSec
             point == [Timestamp |-> bucket, Count |-> 1, Bytes |-> TotalBytes(conn)]
         IN  TimelineMapOverwrite(Tail(connections), MapPut(timelineMap, bucket, point))

RECURSIVE TimelineMap(_, _)
TimelineMap(connections, timelineMap) ==
    IF connections = <<>> THEN timelineMap
    ELSE LET conn == Head(connections)
             bucket == GoDiv(IntOf(conn.Timestamp), timelineBucketSec) * timelineBucketSec
             point == IF bucket \in DOMAIN timelineMap
                      THEN [timelineMap[bucket] EXCEPT
                                !.Count = @ + 1, !.Bytes = @ + TotalBytes(conn)]
                      ELSE [Timestamp |-> bucket, Count |-> 1, Bytes |-> TotalBytes(conn)]
         IN  TimelineMap(Tail(connections), MapPut(timelineMap, bucket, point))

\* Start and End are taken from the first and the last bucket.
TimelineFromBuckets(connections) ==
    LET timelineMap == TimelineMap(connections, EmptyMap)
        order == SortedSeq(DOMAIN timelineMap)
    IN  IF Len(connections) = 0
        THEN [Points |-> <<>>, Start |-> 0, End |-> 0]
        ELSE [Points |-> [i \in DOMAIN order |-> timelineMap[order[i]]],
              Start |-> order[1],
              End |-> order[Len(order)]]

\* The buckets are kept between two calls: a timeline computed right after
\* another one counts every record twice.
TimelineAccumulating(connections) ==
    LET stamps == {connections[i].Timestamp : i \in DOMAIN connections}
        timelineMap == TimelineMap(connections, EmptyMap)
        order == SortedSeq(DOMAIN timelineMap)
        again == IF last.op = "timeline" THEN 2 ELSE 1
    IN  IF Len(connections) = 0
        THEN [Points |-> <<>>, Start |-> 0, End |-> 0]
        ELSE [Points |-> [i \in DOMAIN order |->
                            [timelineMap[order[i]] EXCEPT !.Count = @ * again]],
              Start |-> IntOf(SetMin(stamps)),
              End |-> IntOf(SetMax(stamps))]

Timeline(connections) ==
    LET stamps == {connections[i].Timestamp : i \in DOMAIN connections}
        timelineMap == TimelineMap(connections, EmptyMap)
        order == SortedSeq(DOMAIN timelineMap)
    IN  IF Len(connections) = 0
        THEN [Points |-> <<>>, Start |-> 0, End |-> 0]
        ELSE [Points |-> [i \in DOMAIN order |-> timelineMap[order[i]]],
              Start |-> IntOf(SetMin(stamps)),
              End |-> IntOf(SetMax(stamps))]

-----------------------------------------------------------------------------
(* The statistics *)

ConnStateDescriptions ==
    [SF |-> "Normal Established - Successful connection that was properly closed",
     S0 |-> "Connection Attempt Rejected - Initial SYN was not acknowledged",
     S1 |-> "Connection Established, Not Terminated - Connection established but not cleanly closed",
     S2 |-> "Connection Established, Originator Aborted - Connection established but originator aborted",
     S3 |-> "Connection Established, Responder Aborted - Connection established but responder aborted",
     REJ |-> "Connection Rejected - Connection attempt was explicitly rejected",
     RSTO |-> "Connection Reset by Originator - Originator sent RST",
     RSTR |-> "Connection Reset by Responder - Responder sent RST",
     RSTOS0 |-> "Originator Sent SYN+RST - Connection attempt with immediate reset",
     RSTRH |-> "Responder Sent RST after Handshake - Reset after successful handshake",
     SH |-> "Originator Sent SYN+FIN - Unusual SYN+FIN combination",
     SHR |-> "Responder Sent SYN+FIN after SYN - Response with SYN+FIN",
     OTH |-> "Other/No Further Info - No additional information available"]

getConnStateDescription(state) ==
    IF state \in DOMAIN ConnStateDescriptions
    THEN ConnStateDescriptions[state]
    ELSE state \o " - Unknown connection state"

\* The float64 -1 that marks "no timestamp seen yet".
NoTime == -NumScale

RECURSIVE StatsFold(_, _)
StatsFold(connections, acc) ==
    IF connections = <<>> THEN acc
    ELSE LET conn == Head(connections)
         IN  StatsFold(Tail(connections),
                 [protocols |-> Incr(acc.protocols, conn.Protocol),
                  services |-> IF conn.Service # ""
                               THEN Incr(acc.services, conn.Service)
                               ELSE acc.services,
                  connStates |-> Incr(acc.connStates, conn.ConnState),
                  uniqueIPs |-> acc.uniqueIPs \cup {conn.OrigHost, conn.RespHost},
                  totalBytes |-> acc.totalBytes + TotalBytes(conn),
                  startTime |-> IF acc.startTime = NoTime \/ conn.Timestamp < acc.startTime
                                THEN conn.Timestamp ELSE acc.startTime,
                  endTime |-> IF acc.endTime = NoTime \/ conn.Timestamp > acc.endTime
                              THEN conn.Timestamp ELSE acc.endTime])

\* Only the originators are counted as hosts.
processConnectionStatsOrigOnly(connections) ==
    LET st == StatsFold(connections,
                [protocols |-> EmptyMap, services |-> EmptyMap, connStates |-> EmptyMap,
                 uniqueIPs |-> {}, totalBytes |-> 0, startTime |-> NoTime,
                 endTime |-> NoTime])
    IN  [st EXCEPT !.uniqueIPs = {connections[i].OrigHost : i \in DOMAIN connections}]

processConnectionStats(connections) ==
    StatsFold(connections,
        [protocols |-> EmptyMap, services |-> EmptyMap, connStates |-> EmptyMap,
         uniqueIPs |-> {}, totalBytes |-> 0, startTime |-> NoTime, endTime |-> NoTime])

\* The tables buildConnStateDescriptions can return: sorted by count, descending,
\* states of equal count in any order.
buildConnStateDescriptions(connStates) ==
    {[i \in DOMAIN o |-> [code |-> o[i],
                          description |-> getConnStateDescription(o[i]),
                          count |-> connStates[o[i]]]] :
        o \in {x \in Orderings(DOMAIN connStates) :
                 \A i, j \in DOMAIN x : i < j => connStates[x[i]] >= connStates[x[j]]}}

-----------------------------------------------------------------------------
(* The store *)

EmptyID == <<>>

\* The ID built from the file name alone.
generateFileIDNameOnly(filename, uploadTime) == <<filename, 0>>

\* fmt.Sprintf("%s_%d", filename, uploadTime), hashed: the ID stands for the pair
\* that was hashed, two pairs giving one ID only when they are equal.
generateFileID(filename, uploadTime) == <<filename, uploadTime>>

AllIDs == {generateFileID(f, t) : f \in Filenames, t \in Times}

NoFiles == [id \in {} |-> 0]

HasFile(fs, id) == id \in DOMAIN fs

NumFiles(fs) == Cardinality(DOMAIN fs)

\* An entry that exists is kept as it is.
StoreFileKeepOld(fs, id, data) ==
    [k \in DOMAIN fs \cup {id} |-> IF k \in DOMAIN fs THEN fs[k] ELSE data]

\* a.files[fileID] = fileData
StoreFile(fs, id, data) ==
    [k \in DOMAIN fs \cup {id} |-> IF k = id THEN data ELSE fs[k]]

\* The map is cleared.
RemoveFileAll(fs, id) == [k \in {} |-> 0]

\* delete(a.files, id)
RemoveFile(fs, id) == [k \in DOMAIN fs \ {id} |-> fs[k]]

\* The guard compares with 0.
OnlyFileOffByOne(fs) == Cardinality(DOMAIN fs) <= 0

\* len(a.files) <= 1: the only file is not deleted
OnlyFile(fs) == NumFiles(fs) <= 1

\* No other file is elected.
ElectCurrentNone(fs, cur, id) == {cur}

\* The values a.currentFileID can have after DeleteFile removed id, fs being the
\* map after the removal: the first key a range over the map yields.
ElectCurrent(fs, cur, id) ==
    IF cur = id /\ DOMAIN fs # {} THEN DOMAIN fs ELSE {cur}

\* The current ID is ignored: some file's connections are returned.
getCurrentConnectionsAny(fs, cur) ==
    IF DOMAIN fs = {} THEN <<>> ELSE fs[CHOOSE k \in DOMAIN fs : TRUE].Connections

getCurrentConnections(fs, cur) ==
    IF cur = EmptyID \/ ~HasFile(fs, cur) THEN <<>> ELSE fs[cur].Connections

\* header.Size, the length of the uploaded part, counted in lines.
HeaderSize(lines) == Len(lines)

NoOut == [none |-> TRUE]

Response(op, req, status, msg, out) ==
    [op |-> op, req |-> req, status |-> status, msg |-> msg, out |-> out]

\* http.Error(w, msg, status); return
Reject(op, req, status, msg) ==
    /\ last' = Response(op, req, status, msg, NoOut)
    /\ UNCHANGED <<files, currentFileID, logPath, now, procs>>

\* The ingest stays within the model's bound on the number of files.
InBounds(id) == HasFile(files, id) \/ NumFiles(files) < MaxFiles

Procs == 1..NumProcs

Idle == [pc |-> "idle", req |-> NoOut, data |-> NoOut, pick |-> EmptyID]

-----------------------------------------------------------------------------
(* Requests *)

UploadRequests ==
    {[method |-> "POST", form |-> "ok", filename |-> f, lines |-> ls] :
        f \in Filenames, ls \in SampleFiles}
    \cup {[method |-> "GET", form |-> "ok", filename |-> "conn.log", lines |-> MixedFile],
          [method |-> "POST", form |-> "malformed", filename |-> "", lines |-> <<>>],
          [method |-> "POST", form |-> "nofile", filename |-> "", lines |-> <<>>]}

IDRequests ==
    {[method |-> "POST", body |-> "ok", file_id |-> id] : id \in AllIDs \cup {EmptyID}}
    \cup {[method |-> "DELETE", body |-> "ok", file_id |-> id] :
            id \in {x \in AllIDs : x[1] = "conn.log"}}
    \cup {[method |-> "GET", body |-> "ok", file_id |-> EmptyID],
          [method |-> "POST", body |-> "malformed", file_id |-> EmptyID]}

\* A request that reaches the handler's work on the store with its file ID.
WellFormed(r, methods) == r.method \in methods /\ r.body = "ok"

\* The query parameters of GetConnections and GetNodes.
NoFilter == [start |-> "", end |-> "", protocol |-> "", conn_state |-> ""]

Queries == {NoFilter, [NoFilter EXCEPT !.protocol = "tcp"]}

\* What os.Open(a.logPath) finds.
DiskStates ==
    {[exists |-> FALSE, lines |-> <<>>]}
    \cup {[exists |-> TRUE, lines |-> ls] : ls \in {MixedFile, LongFile}}

-----------------------------------------------------------------------------
(* Handlers, each run to completion *)

\* total_files counts the ingests rather than the keys of the map.
UploadFileCountsIngests(r) ==
    LET res == LoadConnectionsFromReader(r.lines)
        fileID == generateFileID(r.filename, now)
        fileData == [Filename |-> r.filename, UploadTime |-> now,
                     Size |-> HeaderSize(r.lines), Connections |-> res.connections]
    IN  IF r.method # "POST"
        THEN Reject("upload", r, "MethodNotAllowed", "Method not allowed")
        ELSE IF r.form = "malformed"
        THEN Reject("upload", r, "BadRequest", "Failed to parse form data")
        ELSE IF r.form = "nofile"
        THEN Reject("upload", r, "BadRequest", "Failed to get file from request")
        ELSE IF res.err
        THEN Reject("upload", r, "BadRequest", "Failed to parse connection log file")
        ELSE /\ InBounds(fileID)
             /\ files' = StoreFile(files, fileID, fileData)
             /\ currentFileID' = fileID
             /\ last' = Response("upload", r, "OK", "",
                    [connections_count |-> Len(res.connections),
                     filename |-> r.filename,
                     file_id |-> fileID,
                     total_files |-> NumFiles(files) + 1])
             /\ UNCHANGED <<logPath, now, procs>>

\* The file is registered before the error of the reader is looked at.
UploadFileStoreFirst(r) ==
    LET res == LoadConnectionsFromReader(r.lines)
        fileID == generateFileID(r.filename, now)
        fileData == [Filename |-> r.filename, UploadTime |-> now,
                     Size |-> HeaderSize(r.lines), Connections |-> res.connections]
    IN  IF r.method # "POST"
        THEN Reject("upload", r, "MethodNotAllowed", "Method not allowed")
        ELSE IF r.form = "malformed"
        THEN Reject("upload", r, "BadRequest", "Failed to parse form data")
        ELSE IF r.form = "nofile"
        THEN Reject("upload", r, "BadRequest", "Failed to get file from request")
        ELSE /\ InBounds(fileID)
             /\ files' = StoreFile(files, fileID, fileData)
             /\ currentFileID' = fileID
             /\ last' = IF res.err
                        THEN Response("upload", r, "BadRequest",
                                      "Failed to parse connection log file", NoOut)
                        ELSE Response("upload", r, "OK", "",
                                 [connections_count |-> Len(res.connections),
                                  filename |-> r.filename,
                                  file_id |-> fileID,
                                  total_files |-> NumFiles(files')])
             /\ UNCHANGED <<logPath, now, procs>>

UploadFile(r) ==
    LET res == LoadConnectionsFromReader(r.lines)
        uploadTime == now
        fileID == generateFileID(r.filename, uploadTime)
        fileData == [Filename |-> r.filename, UploadTime |-> uploadTime,
                     Size |-> HeaderSize(r.lines), Connections |-> res.connections]
    IN  IF r.method # "POST"
        THEN Reject("upload", r, "MethodNotAllowed", "Method not allowed")
        ELSE IF r.form = "malformed"
        THEN Reject("upload", r, "BadRequest", "Failed to parse form data")
        ELSE IF r.form = "nofile"
        THEN Reject("upload", r, "BadRequest", "Failed to get file from request")
        ELSE IF res.err
        THEN Reject("upload", r, "BadRequest", "Failed to parse connection log file")
        ELSE /\ InBounds(fileID)
             /\ files' = StoreFile(files, fileID, fileData)
             /\ currentFileID' = fileID
             /\ last' = Response("upload", r, "OK", "",
                    [connections_count |-> Len(res.connections),
                     filename |-> r.filename,
                     file_id |-> fileID,
                     total_files |-> NumFiles(files')])
             /\ UNCHANGED <<logPath, now, procs>>

LoadConnections(disk) ==
    LET res == LoadConnectionsFromReader(disk.lines)
        uploadTime == now
        fileID == generateFileID(logPath, uploadTime)
        fileData == [Filename |-> logPath, UploadTime |-> uploadTime,
                     Size |-> 0, Connections |-> res.connections]
    IN  /\ disk.exists => logPath # ""
        /\ IF ~disk.exists
           THEN Reject("load", disk, "errFailedToOpenLogFile", "failed to open log file")
           ELSE IF res.err
           THEN Reject("load", disk, "errErrorReadingData", "error reading data")
           ELSE /\ InBounds(fileID)
                /\ files' = StoreFile(files, fileID, fileData)
                /\ currentFileID' = fileID
                /\ last' = Response("load", disk, "nil", "",
                       [connections_count |-> Len(res.connections),
                        filename |-> logPath,
                        file_id |-> fileID,
                        total_files |-> NumFiles(files')])
                /\ UNCHANGED <<logPath, now, procs>>

\* The pointer is written before the ID is looked up.
SwitchFileWriteFirst(r) ==
    IF r.method # "POST"
    THEN Reject("switch", r, "MethodNotAllowed", "Method not allowed")
    ELSE IF r.body = "malformed"
    THEN Reject("switch", r, "BadRequest", "Invalid JSON body")
    ELSE IF r.file_id = EmptyID
    THEN Reject("switch", r, "BadRequest", "File ID is required")
    ELSE /\ currentFileID' = r.file_id
         /\ last' = IF ~HasFile(files, r.file_id)
                    THEN Response("switch", r, "NotFound", "File not found", NoOut)
                    ELSE Response("switch", r, "OK", "",
                            [current_file |-> r.file_id,
                             filename |-> files[r.file_id].Filename,
                             connections_count |-> Len(files[r.file_id].Connections)])
         /\ UNCHANGED <<files, logPath, now, procs>>

SwitchFile(r) ==
    IF r.method # "POST"
    THEN Reject("switch", r, "MethodNotAllowed", "Method not allowed")
    ELSE IF r.body = "malformed"
    THEN Reject("switch", r, "BadRequest", "Invalid JSON body")
    ELSE IF r.file_id = EmptyID
    THEN Reject("switch", r, "BadRequest", "File ID is required")
    ELSE IF ~HasFile(files, r.file_id)
    THEN Reject("switch", r, "NotFound", "File not found")
    ELSE /\ currentFileID' = r.file_id
         /\ last' = Response("switch", r, "OK", "",
                [current_file |-> r.file_id,
                 filename |-> files[r.file_id].Filename,
                 connections_count |-> Len(files[r.file_id].Connections)])
         /\ UNCHANGED <<files, logPath, now, procs>>

\* The number of files is checked before the ID is looked up.
DeleteFileCountFirst(r) ==
    IF r.method \notin {"DELETE", "POST"}
    THEN Reject("delete", r, "MethodNotAllowed", "Method not allowed")
    ELSE IF r.body = "malformed"
    THEN Reject("delete", r, "BadRequest", "Invalid JSON body")
    ELSE IF r.file_id = EmptyID
    THEN Reject("delete", r, "BadRequest", "File ID is required")
    ELSE IF OnlyFile(files)
    THEN Reject("delete", r, "BadRequest", "Cannot delete the only remaining file")
    ELSE IF ~HasFile(files, r.file_id)
    THEN Reject("delete", r, "NotFound", "File not found")
    ELSE /\ files' = RemoveFile(files, r.file_id)
         /\ currentFileID' \in ElectCurrent(files', currentFileID, r.file_id)
         /\ last' = Response("delete", r, "OK", "",
                [filename |-> files[r.file_id].Filename,
                 current_file |-> currentFileID',
                 total_files |-> NumFiles(files')])
         /\ UNCHANGED <<logPath, now, procs>>

DeleteFile(r) ==
    IF r.method \notin {"DELETE", "POST"}
    THEN Reject("delete", r, "MethodNotAllowed", "Method not allowed")
    ELSE IF r.body = "malformed"
    THEN Reject("delete", r, "BadRequest", "Invalid JSON body")
    ELSE IF r.file_id = EmptyID
    THEN Reject("delete", r, "BadRequest", "File ID is required")
    ELSE IF ~HasFile(files, r.file_id)
    THEN Reject("delete", r, "NotFound", "File not found")
    ELSE IF OnlyFile(files)
    THEN Reject("delete", r, "BadRequest", "Cannot delete the only remaining file")
    ELSE /\ files' = RemoveFile(files, r.file_id)
         /\ currentFileID' \in ElectCurrent(files', currentFileID, r.file_id)
         /\ last' = Response("delete", r, "OK", "",
                [filename |-> files[r.file_id].Filename,
                 current_file |-> currentFileID',
                 total_files |-> NumFiles(files')])
         /\ UNCHANGED <<logPath, now, procs>>

\* A handler that only reads the store answers 200.
Answer(op, req, out) ==
    /\ last' = Response(op, req, "OK", "", out)
    /\ UNCHANGED <<files, currentFileID, logPath, now, procs>>

GetConnections(q) ==
    Answer("connections", q,
        [connections |-> applyFilters(getCurrentConnections(files, currentFileID), q)])

GetNodes(q) ==
    \E graph \in buildNodesAndEdges(
                    applyFilters(getCurrentConnections(files, currentFileID), q)) :
        Answer("nodes", q, graph)

\* The records in ascending order of their timestamps.
RECURSIVE SortedByTimestamp(_)
SortedByTimestamp(connections) ==
    IF connections = <<>> THEN <<>>
    ELSE LET i == CHOOSE i \in DOMAIN connections :
                    \A j \in DOMAIN connections :
                        connections[i].Timestamp <= connections[j].Timestamp
             rest == [k \in 1..(Len(connections) - 1) |->
                        IF k < i THEN connections[k] ELSE connections[k + 1]]
         IN  <<connections[i]>> \o SortedByTimestamp(rest)

\* The stored records themselves are sorted, not a copy of them.
GetTimelineSortInPlace ==
    /\ last' = Response("timeline", NoOut, "OK", "",
                  Timeline(getCurrentConnections(files, currentFileID)))
    /\ files' = IF currentFileID # EmptyID /\ HasFile(files, currentFileID)
                THEN [files EXCEPT ![currentFileID].Connections = SortedByTimestamp(@)]
                ELSE files
    /\ UNCHANGED <<currentFileID, logPath, now, procs>>

GetTimeline ==
    Answer("timeline", NoOut, Timeline(getCurrentConnections(files, currentFileID)))

GetStats ==
    LET connections == getCurrentConnections(files, currentFileID)
        st == processConnectionStats(connections)
        hasCurrent == currentFileID # EmptyID /\ HasFile(files, currentFileID)
    IN  \E available \in buildConnStateDescriptions(st.connStates) :
            Answer("stats", NoOut,
                [total_connections |-> Len(connections),
                 protocols |-> st.protocols,
                 services |-> st.services,
                 conn_states |-> st.connStates,
                 total_bytes |-> st.totalBytes,
                 unique_ip_count |-> Cardinality(st.uniqueIPs),
                 time_range |-> [start |-> st.startTime, end |-> st.endTime,
                                 duration |-> st.endTime - st.startTime],
                 available_conn_states |-> available,
                 has_current_file |-> hasCurrent,
                 current_file |->
                    IF hasCurrent
                    THEN [id |-> currentFileID,
                          filename |-> files[currentFileID].Filename,
                          upload_time |-> files[currentFileID].UploadTime,
                          size |-> files[currentFileID].Size]
                    ELSE NoOut,
                 total_files |-> NumFiles(files)])

FileInfo(fs, cur, fileID) ==
    [id |-> fileID,
     filename |-> fs[fileID].Filename,
     upload_time |-> fs[fileID].UploadTime,
     size |-> fs[fileID].Size,
     connection_count |-> Len(fs[fileID].Connections),
     is_current |-> fileID = cur]

\* The files in whatever order the range over the map yields them.
FileListsUnsorted(fs, cur) ==
    {[i \in DOMAIN o |-> FileInfo(fs, cur, o[i])] : o \in Orderings(DOMAIN fs)}

\* The lists GetFiles can return: sorted by upload time, the most recent first,
\* files of the same second in any order.
FileLists(fs, cur) ==
    {[i \in DOMAIN o |-> FileInfo(fs, cur, o[i])] :
        o \in {x \in Orderings(DOMAIN fs) :
                 \A i, j \in DOMAIN x : i < j => fs[x[i]].UploadTime >= fs[x[j]].UploadTime}}

GetFiles ==
    \E list \in FileLists(files, currentFileID) :
        Answer("files", NoOut,
            [files |-> list, current_file |-> currentFileID, total_files |-> Len(list)])

\* The wall clock advances by a second.
Tick ==
    /\ now < MaxTime
    /\ now' = now + 1
    /\ UNCHANGED <<files, currentFileID, logPath, last, procs>>

-----------------------------------------------------------------------------
(* The server with one request handled at a time *)

Init ==
    /\ files = NoFiles
    /\ currentFileID = EmptyID
    /\ logPath \in LogPaths
    /\ now = 0
    /\ last = Response("none", NoOut, "none", "", NoOut)
    /\ procs = [p \in Procs |-> Idle]

Upload == \E r \in UploadRequests : UploadFile(r)
Load == \E disk \in DiskStates : LoadConnections(disk)
Switch == \E r \in IDRequests : SwitchFile(r)
Delete == \E r \in IDRequests : DeleteFile(r)

Connections == \E q \in Queries : GetConnections(q)
Nodes == \E q \in Queries : GetNodes(q)

Next ==
    \/ Upload \/ Load \/ Switch \/ Delete
    \/ Connections \/ Nodes \/ GetTimeline \/ GetStats \/ GetFiles
    \/ Tick

Spec == Init /\ [][Next]_vars

-----------------------------------------------------------------------------
(* The server as net/http runs it: every request in a goroutine of its own,     *)
(* the handlers' reads and writes of a.files and a.currentFileID interleaved.   *)
(* A step is one statement's read or write of the shared store.                 *)

\* The requests of the concurrent runs: one file name, one input file.
ConcUploadRequests ==
    {r \in UploadRequests : r.filename \in {"conn.log", ""} /\ r.lines \in {MixedFile, <<>>}}

ConcIDRequests ==
    {r \in IDRequests : r.method # "DELETE" /\ (r.file_id = EmptyID \/ r.file_id[1] = "conn.log")}

AllIdle == \A p \in Procs : procs[p].pc = "idle"

Goto(p, pc, req, data, pick) ==
    procs' = [procs EXCEPT ![p] = [pc |-> pc, req |-> req, data |-> data, pick |-> pick]]

Step(p, pc) == procs' = [procs EXCEPT ![p].pc = pc]

\* The handler returns: its response is written and the goroutine ends.
Finish(p, resp) ==
    /\ procs' = [procs EXCEPT ![p] = Idle]
    /\ last' = resp

\* A nil *FileData is dereferenced: the handler panics and net/http recovers.
Panic(p, op) == Finish(p, Response(op, procs[p].req, "panic", "nil pointer dereference", NoOut))

\* UploadFile, lines 122-166: the request is read and parsed, the record built.
UploadBegin(p, r) ==
    LET res == LoadConnectionsFromReader(r.lines)
        uploadTime == now
        fileID == generateFileID(r.filename, uploadTime)
        fileData == [Filename |-> r.filename, UploadTime |-> uploadTime,
                     Size |-> HeaderSize(r.lines), Connections |-> res.connections]
    IN  /\ procs[p].pc = "idle"
        /\ IF r.method # "POST"
           THEN Reject("upload", r, "MethodNotAllowed", "Method not allowed")
           ELSE IF r.form = "malformed"
           THEN Reject("upload", r, "BadRequest", "Failed to parse form data")
           ELSE IF r.form = "nofile"
           THEN Reject("upload", r, "BadRequest", "Failed to get file from request")
           ELSE IF res.err
           THEN Reject("upload", r, "BadRequest", "Failed to parse connection log file")
           ELSE /\ InBounds(fileID)
                /\ Goto(p, "upload_store", r, fileData, fileID)
                /\ UNCHANGED <<files, currentFileID, logPath, now, last>>

\* line 169: a.files[fileID] = fileData
UploadStore(p) ==
    /\ procs[p].pc = "upload_store"
    /\ files' = StoreFile(files, procs[p].pick, procs[p].data)
    /\ Step(p, "upload_current")
    /\ UNCHANGED <<currentFileID, logPath, now, last>>

\* line 170: a.currentFileID = fileID
UploadSetCurrent(p) ==
    /\ procs[p].pc = "upload_current"
    /\ currentFileID' = procs[p].pick
    /\ Step(p, "upload_respond")
    /\ UNCHANGED <<files, logPath, now, last>>

\* lines 175-183: the response, with len(a.files)
UploadRespond(p) ==
    /\ procs[p].pc = "upload_respond"
    /\ Finish(p, Response("upload", procs[p].req, "OK", "",
            [connections_count |-> Len(procs[p].data.Connections),
             filename |-> procs[p].data.Filename,
             file_id |-> procs[p].pick,
             total_files |-> NumFiles(files)]))
    /\ UNCHANGED <<files, currentFileID, logPath, now>>

\* SwitchFile and DeleteFile, up to the check of the file ID for "".
IDBegin(p, op, r, methods) ==
    /\ procs[p].pc = "idle"
    /\ IF r.method \notin methods
       THEN Reject(op, r, "MethodNotAllowed", "Method not allowed")
       ELSE IF r.body = "malformed"
       THEN Reject(op, r, "BadRequest", "Invalid JSON body")
       ELSE IF r.file_id = EmptyID
       THEN Reject(op, r, "BadRequest", "File ID is required")
       ELSE /\ Goto(p, op \o "_check", r, NoOut, EmptyID)
            /\ UNCHANGED <<files, currentFileID, logPath, now, last>>

\* SwitchFile, lines 422-448
SwitchBegin(p, r) == IDBegin(p, "switch", r, {"POST"})

\* line 450: a.files[request.FileID] == nil
SwitchCheck(p) ==
    /\ procs[p].pc = "switch_check"
    /\ IF ~HasFile(files, procs[p].req.file_id)
       THEN Finish(p, Response("switch", procs[p].req, "NotFound", "File not found", NoOut))
       ELSE Step(p, "switch_current") /\ UNCHANGED last
    /\ UNCHANGED <<files, currentFileID, logPath, now>>

\* line 457: a.currentFileID = request.FileID
SwitchSetCurrent(p) ==
    /\ procs[p].pc = "switch_current"
    /\ currentFileID' = procs[p].req.file_id
    /\ Step(p, "switch_lookup")
    /\ UNCHANGED <<files, logPath, now, last>>

\* lines 458-469: currentFile := a.files[request.FileID], and the response from it
SwitchLookup(p) ==
    LET id == procs[p].req.file_id
    IN  /\ procs[p].pc = "switch_lookup"
        /\ IF ~HasFile(files, id)
           THEN Panic(p, "switch")
           ELSE Finish(p, Response("switch", procs[p].req, "OK", "",
                    [current_file |-> id,
                     filename |-> files[id].Filename,
                     connections_count |-> Len(files[id].Connections)]))
        /\ UNCHANGED <<files, currentFileID, logPath, now>>

\* DeleteFile, lines 479-505
DeleteBegin(p, r) == IDBegin(p, "delete", r, {"DELETE", "POST"})

\* line 507: a.files[request.FileID] == nil
DeleteCheck(p) ==
    /\ procs[p].pc = "delete_check"
    /\ IF ~HasFile(files, procs[p].req.file_id)
       THEN Finish(p, Response("delete", procs[p].req, "NotFound", "File not found", NoOut))
       ELSE Step(p, "delete_len") /\ UNCHANGED last
    /\ UNCHANGED <<files, currentFileID, logPath, now>>

\* line 514: len(a.files) <= 1
DeleteLen(p) ==
    /\ procs[p].pc = "delete_len"
    /\ IF OnlyFile(files)
       THEN Finish(p, Response("delete", procs[p].req, "BadRequest",
                               "Cannot delete the only remaining file", NoOut))
       ELSE Step(p, "delete_name") /\ UNCHANGED last
    /\ UNCHANGED <<files, currentFileID, logPath, now>>

\* line 521: filename := a.files[request.FileID].Filename
DeleteName(p) ==
    LET id == procs[p].req.file_id
    IN  /\ procs[p].pc = "delete_name"
        /\ IF ~HasFile(files, id)
           THEN Panic(p, "delete")
           ELSE /\ Goto(p, "delete_remove", procs[p].req,
                        [Filename |-> files[id].Filename], EmptyID)
                /\ UNCHANGED last
        /\ UNCHANGED <<files, currentFileID, logPath, now>>

\* line 524: delete(a.files, request.FileID)
DeleteRemove(p) ==
    /\ procs[p].pc = "delete_remove"
    /\ files' = RemoveFile(files, procs[p].req.file_id)
    /\ Step(p, "delete_compare")
    /\ UNCHANGED <<currentFileID, logPath, now, last>>

\* line 527: a.currentFileID == request.FileID
DeleteCompare(p) ==
    /\ procs[p].pc = "delete_compare"
    /\ IF currentFileID = procs[p].req.file_id
       THEN Step(p, "delete_range")
       ELSE Step(p, "delete_respond")
    /\ UNCHANGED <<files, currentFileID, logPath, now, last>>

\* line 529: for fileID := range a.files, the first key if there is one
DeleteRange(p) ==
    /\ procs[p].pc = "delete_range"
    /\ IF DOMAIN files = {}
       THEN Step(p, "delete_respond")
       ELSE \E fileID \in DOMAIN files :
                Goto(p, "delete_current", procs[p].req, procs[p].data, fileID)
    /\ UNCHANGED <<files, currentFileID, logPath, now, last>>

\* line 530: a.currentFileID = fileID
DeleteSetCurrent(p) ==
    /\ procs[p].pc = "delete_current"
    /\ currentFileID' = procs[p].pick
    /\ Step(p, "delete_respond")
    /\ UNCHANGED <<files, logPath, now, last>>

\* lines 538-543: the response, with a.currentFileID and len(a.files)
DeleteRespond(p) ==
    /\ procs[p].pc = "delete_respond"
    /\ Finish(p, Response("delete", procs[p].req, "OK", "",
            [filename |-> procs[p].data.Filename,
             current_file |-> currentFileID,
             total_files |-> NumFiles(files)]))
    /\ UNCHANGED <<files, currentFileID, logPath, now>>

ConcUpload ==
    \E p \in Procs :
        \/ \E r \in ConcUploadRequests : UploadBegin(p, r)
        \/ UploadStore(p)
        \/ UploadSetCurrent(p)
        \/ UploadRespond(p)

ConcSwitch ==
    \E p \in Procs :
        \/ \E r \in ConcIDRequests : SwitchBegin(p, r)
        \/ SwitchCheck(p)
        \/ SwitchSetCurrent(p)
        \/ SwitchLookup(p)

ConcDelete ==
    \E p \in Procs :
        \/ \E r \in ConcIDRequests : DeleteBegin(p, r)
        \/ DeleteCheck(p)
        \/ DeleteLen(p)
        \/ DeleteName(p)
        \/ DeleteRemove(p)
        \/ DeleteCompare(p)
        \/ DeleteRange(p)
        \/ DeleteSetCurrent(p)
        \/ DeleteRespond(p)

\* GetStats, line 340, in getCurrentConnections, line 686:
\* a.currentFileID == "" || a.files[a.currentFileID] == nil
StatsCheck(p) ==
    /\ procs[p].pc = "idle"
    /\ IF currentFileID = EmptyID \/ ~HasFile(files, currentFileID)
       THEN Goto(p, "stats_file_check", NoOut, NoOut, EmptyID)
       ELSE Goto(p, "stats_records", NoOut, NoOut, EmptyID)
    /\ UNCHANGED <<files, currentFileID, logPath, now, last>>

\* getCurrentConnections, line 690: a.files[a.currentFileID].Connections, with
\* both fields read again; lines 341-359 then summarize these records.
StatsRecords(p) ==
    /\ procs[p].pc = "stats_records"
    /\ IF ~HasFile(files, currentFileID)
       THEN Panic(p, "stats")
       ELSE /\ Goto(p, "stats_file_check", NoOut, NoOut, currentFileID)
            /\ UNCHANGED last
    /\ UNCHANGED <<files, currentFileID, logPath, now>>

\* GetStats, line 361: a.currentFileID != "" && a.files[a.currentFileID] != nil
StatsFileCheck(p) ==
    /\ procs[p].pc = "stats_file_check"
    /\ IF currentFileID # EmptyID /\ HasFile(files, currentFileID)
       THEN Step(p, "stats_file") /\ UNCHANGED last
       ELSE Finish(p, Response("stats", NoOut, "OK", "",
                [summarized |-> procs[p].pick, current_file |-> EmptyID,
                 total_files |-> NumFiles(files)]))
    /\ UNCHANGED <<files, currentFileID, logPath, now>>

\* GetStats, lines 362-370: currentFile := a.files[a.currentFileID], its fields,
\* and len(a.files)
StatsFile(p) ==
    /\ procs[p].pc = "stats_file"
    /\ IF ~HasFile(files, currentFileID)
       THEN Panic(p, "stats")
       ELSE Finish(p, Response("stats", NoOut, "OK", "",
                [summarized |-> procs[p].pick, current_file |-> currentFileID,
                 total_files |-> NumFiles(files)]))
    /\ UNCHANGED <<files, currentFileID, logPath, now>>

ConcStats ==
    \E p \in Procs :
        \/ StatsCheck(p)
        \/ StatsRecords(p)
        \/ StatsFileCheck(p)
        \/ StatsFile(p)

NextConc == ConcUpload \/ ConcSwitch \/ ConcDelete \/ ConcStats \/ Tick

SpecConc == Init /\ [][NextConc]_vars

-----------------------------------------------------------------------------
(* The views over one ingested file: a file of up to MaxLines lines is      *)
(* uploaded into the empty store and the handlers that read it are called.  *)

\* {"ts":-1,"id.orig_h":"A","id.orig_p":80.5,"id.resp_h":"A","proto":"tcp",
\*  "duration":0.5,"orig_bytes":5,"conn_state":"SF","local_orig":true}
Json3 ==
    JsonLine([ts |-> JNum(-NumScale), orig_h |-> JStr("A"), orig_p |-> JNum(80 * NumScale + 1),
              resp_h |-> JStr("A"), proto |-> JStr("tcp"), duration |-> JNum(1),
              orig_bytes |-> JNum(5 * NumScale), conn_state |-> JStr("SF"),
              local_orig |-> JBool(TRUE)])

\* {"ts":-5.5,"id.orig_h":"A-B","id.resp_h":"A","proto":"tcp","orig_bytes":1,
\*  "conn_state":"S0","local_resp":"T"}
Json4 ==
    JsonLine([ts |-> JNum(-(5 * NumScale + 1)), orig_h |-> JStr("A-B"), resp_h |-> JStr("A"),
              proto |-> JStr("tcp"), orig_bytes |-> JNum(NumScale),
              conn_state |-> JStr("S0"), local_resp |-> JStr("T")])

\* {"ts":3,"id.orig_h":"A","id.resp_h":"B-A","proto":"tcp","resp_bytes":2,
\*  "conn_state":"S0","uid":false}
Json5 ==
    JsonLine([ts |-> JNum(3 * NumScale), orig_h |-> JStr("A"), resp_h |-> JStr("B-A"),
              proto |-> JStr("tcp"), resp_bytes |-> JNum(2 * NumScale),
              conn_state |-> JStr("S0"), uid |-> JBool(FALSE)])

\* {"ts":100,"id.orig_h":"A","id.resp_h":"B","proto":"udp","service":"dns",
\*  "orig_bytes":3,"conn_state":"SF"}
Json7 ==
    JsonLine([ts |-> JNum(100 * NumScale), orig_h |-> JStr("A"), resp_h |-> JStr("B"),
              proto |-> JStr("udp"), service |-> JStr("dns"),
              orig_bytes |-> JNum(3 * NumScale), conn_state |-> JStr("SF")])

\* {"ts":101,"id.orig_h":"A","id.resp_h":"B","proto":"udp","service":"ntp",
\*  "orig_bytes":4,"conn_state":"SF"}
Json8 ==
    JsonLine([ts |-> JNum(101 * NumScale), orig_h |-> JStr("A"), resp_h |-> JStr("B"),
              proto |-> JStr("udp"), service |-> JStr("ntp"),
              orig_bytes |-> JNum(4 * NumScale), conn_state |-> JStr("SF")])

ViewLines == {Json1, Json2, Json3, Json4, Json5, Json7, Json8, TextLine, BlankLine}

MaxLines == 2     \* the uploaded file has up to MaxLines lines

\* The files of up to MaxLines lines, and the file of two records with a line
\* that is not JSON and a blank line between them.
ViewFiles == UNION {[1..n -> ViewLines] : n \in 0..MaxLines} \cup {MixedFile}

ViewUploadRequests ==
    {[method |-> "POST", form |-> "ok", filename |-> "conn.log", lines |-> ls] :
        ls \in ViewFiles}

\* The queries of GetConnections: the protocol and state filters in every
\* combination, and the time filter with bounds that are absent, not integers,
\* in order and out of order.
ViewQueries ==
    {NoFilter}
    \cup {[NoFilter EXCEPT !.protocol = p, !.conn_state = s] :
            p \in {"", "all", "tcp", "icmp"}, s \in {"all", "S0"}}
    \cup {[NoFilter EXCEPT !.start = b[1], !.end = b[2]] :
            b \in {<<"-5", "3">>, <<"100", "0">>, <<"100", "100">>,
                   <<"", "100">>, <<"1x", "100">>, <<"0", "10.0">>}}

IngestOne ==
    /\ files = NoFiles
    /\ \E r \in ViewUploadRequests : UploadFile(r)

FilteredConnections == \E q \in ViewQueries : GetConnections(q)

NextViews ==
    IngestOne \/ FilteredConnections \/ Nodes \/ GetTimeline \/ GetStats \/ GetFiles

SpecViews == Init /\ [][NextViews]_vars

-----------------------------------------------------------------------------
(* The graph of one record: a file of one line whose two hosts are drawn    *)
(* from HostSamples is uploaded into the empty store and its graph is read. *)

HostSamples ==
    {"", "192.168.1.5", "192.16.8.1", "10.0.0.1", "100.1.1.1", "172.16.0.9",
     "172.15.0.9", "172.160.0.9", "172.31.255.1", "172.32.0.1", "127.0.0.1",
     "fe80::1", "fe80:1::", "::1", "::10", "::1:2", "::", "8.8.8.8"}

\* {"ts":1,"id.orig_h":orig,"id.resp_h":resp,"proto":"tcp"}
HostLine(orig, resp) ==
    JsonLine([ts |-> JNum(NumScale), orig_h |-> JStr(orig), resp_h |-> JStr(resp),
              proto |-> JStr("tcp")])

HostUploadRequests ==
    {[method |-> "POST", form |-> "ok", filename |-> "conn.log",
      lines |-> <<HostLine(orig, resp)>>] : orig \in HostSamples, resp \in {"", "8.8.8.8"}}

IngestHosts ==
    /\ files = NoFiles
    /\ \E r \in HostUploadRequests : UploadFile(r)

AllNodes == GetNodes(NoFilter)

NextHosts == IngestHosts \/ AllNodes

SpecHosts == Init /\ [][NextHosts]_vars

-----------------------------------------------------------------------------
(* Properties of the store *)

Ingested == last.op \in {"upload", "load"} /\ last.status \in {"OK", "nil"}

\* C1: with one handler at a time, the current ID is "" while the map is empty
\* and a key of the map whenever the map is not empty.
C1_CurrentIsValid ==
    IF DOMAIN files = {}
    THEN currentFileID = EmptyID
    ELSE currentFileID \in DOMAIN files

\* A delete has succeeded and the current ID names the file that is left.
C1_Witness ==
    /\ last.op = "delete" /\ last.status = "OK"
    /\ NumFiles(files) = 1 /\ currentFileID \in DOMAIN files
    /\ last.req.file_id # currentFileID

\* The step is DeleteFile, or SwitchFile, run on a request that passes the checks
\* of its method and body.
DeleteStep ==
    /\ last'.op = "delete"
    /\ WellFormed(last'.req, {"DELETE", "POST"})
    /\ DeleteFile(last'.req)

SwitchStep ==
    /\ last'.op = "switch"
    /\ WellFormed(last'.req, {"POST"})
    /\ SwitchFile(last'.req)

\* C2: the delete of the only file in the store is refused with 400 and changes
\* neither the map nor the current ID.
C2_DeleteOnlyFileRefused ==
    [][(NumFiles(files) = 1 /\ DeleteStep /\ last'.req.file_id \in DOMAIN files)
        => /\ last'.status = "BadRequest"
           /\ last'.msg = "Cannot delete the only remaining file"
           /\ files' = files
           /\ currentFileID' = currentFileID]_vars

C2_Witness ==
    /\ last.op = "delete" /\ last.status = "BadRequest"
    /\ last.msg = "Cannot delete the only remaining file"
    /\ DOMAIN files = {last.req.file_id}
    /\ currentFileID = last.req.file_id

\* C3: with two files or more, the delete of a stored file succeeds and removes
\* that entry alone; the current ID moves to a remaining file if it named the
\* deleted one and stays as it is otherwise.
C3_DeleteRemovesOne ==
    [][(NumFiles(files) >= 2 /\ DeleteStep /\ last'.req.file_id \in DOMAIN files)
        => LET r == last'.req
           IN  /\ last'.status = "OK"
               /\ DOMAIN files' = DOMAIN files \ {r.file_id}
               /\ \A k \in DOMAIN files' : files'[k] = files[k]
               /\ currentFileID = r.file_id => currentFileID' \in DOMAIN files'
               /\ currentFileID # r.file_id => currentFileID' = currentFileID]_vars

C3_Witness ==
    /\ last.op = "delete" /\ last.status = "OK"
    /\ last.req.file_id \notin DOMAIN files
    /\ last.out.total_files = NumFiles(files) /\ NumFiles(files) >= 1
    /\ last.out.current_file = currentFileID /\ currentFileID \in DOMAIN files

\* C4: with the handlers' reads and writes interleaved, once every handler has
\* returned the current ID is a key of the map if the map is not empty.
C4_CurrentValidWhenQuiescent ==
    (AllIdle /\ DOMAIN files # {}) => currentFileID \in DOMAIN files

\* C5: a map that holds a file never becomes empty, also with the handlers'
\* reads and writes interleaved.
C5_MapStaysNonEmpty ==
    [][DOMAIN files # {} => DOMAIN files' # {}]_vars

\* A step of UploadFile or LoadConnections that stores a file.
IngestStep ==
    \/ last'.op = "upload" /\ last'.status = "OK" /\ UploadFile(last'.req)
    \/ last'.op = "load" /\ last'.status = "nil" /\ LoadConnections(last'.req)

OthersKept(id) ==
    \A k \in DOMAIN files \ {id} : k \in DOMAIN files' /\ files'[k] = files[k]

\* C6 as stated: every successful ingest adds one file to the map and leaves
\* every file that was stored as it was.
C6_IngestAlwaysAddsOne ==
    [][IngestStep =>
        /\ NumFiles(files') = NumFiles(files) + 1
        /\ OthersKept(EmptyID)]_vars

\* C6: a successful ingest whose ID is not a key of the map adds one file and
\* leaves every stored file as it was; its ID is not a key when its (name,
\* second) differs from that of every stored file, also when the name alone is
\* that of a stored file. An ingest with the (name, second) of a stored file gets
\* that file's ID and replaces it: the number of files stays, the others are kept.
C6_IngestAddsOneUnlessSameNameAndSecond ==
    [][IngestStep =>
        LET id == last'.out.file_id
            name == last'.out.filename
            samePair == \E k \in DOMAIN files :
                            files[k].Filename = name /\ files[k].UploadTime = now
        IN  /\ samePair <=> id \in DOMAIN files
            /\ id \notin DOMAIN files => NumFiles(files') = NumFiles(files) + 1
            /\ id \in DOMAIN files => NumFiles(files') = NumFiles(files)
            /\ id \in DOMAIN files'
            /\ OthersKept(id)]_vars

\* An ingest has added a file whose name is that of another stored file.
C6_Witness ==
    /\ Ingested /\ last.out.total_files = 2
    /\ \E k \in DOMAIN files :
          /\ k # last.out.file_id
          /\ files[k].Filename = last.out.filename

\* C7: right after a successful ingest the current ID is the ID the ingest
\* returned and the current connections are the records of the ingested lines,
\* in number connections_count, also when no line parsed.
C7_IngestedIsCurrent ==
    Ingested =>
        /\ currentFileID = last.out.file_id
        /\ getCurrentConnections(files, currentFileID)
              = LoadConnectionsFromReader(last.req.lines).connections
        /\ last.out.connections_count
              = Len(getCurrentConnections(files, currentFileID))

\* An upload with no line that parses has succeeded next to another file.
C7_Witness ==
    /\ Ingested /\ last.op = "upload"
    /\ last.req.lines = JunkFile /\ last.out.connections_count = 0
    /\ currentFileID = last.out.file_id
    /\ NumFiles(files) = 2
    /\ \E k \in DOMAIN files : Len(files[k].Connections) > 0

\* C8 as stated: a switch to an ID that is not a key of the map answers 404 and
\* changes nothing; a switch to a key sets the current ID and nothing else.
C8_SwitchAbsentIsNotFound ==
    [][SwitchStep
        => IF last'.req.file_id \notin DOMAIN files
           THEN /\ last'.status = "NotFound"
                /\ files' = files /\ currentFileID' = currentFileID
           ELSE /\ last'.status = "OK"
                /\ files' = files /\ currentFileID' = last'.req.file_id]_vars

\* C8: a switch to a non-empty ID that is not a key of the map answers 404, a
\* switch to the empty ID answers 400, and both change nothing; a switch to a key
\* sets the current ID and nothing else.
C8_SwitchFrame ==
    [][SwitchStep
        => LET r == last'.req
           IN  IF r.file_id \notin DOMAIN files
               THEN /\ last'.status = IF r.file_id = EmptyID THEN "BadRequest" ELSE "NotFound"
                    /\ files' = files /\ currentFileID' = currentFileID
               ELSE /\ last'.status = "OK"
                    /\ files' = files /\ currentFileID' = r.file_id]_vars

\* A switch has been refused for an ID that is not stored, next to a current file.
C8_Witness ==
    /\ last.op = "switch" /\ last.status = "NotFound"
    /\ last.req.file_id \notin DOMAIN files
    /\ NumFiles(files) >= 1 /\ currentFileID \in DOMAIN files

\* C9: the delete of a non-empty ID that is not a key of the map answers 404 and
\* changes nothing, whatever the number of files.
C9_DeleteAbsentIsNotFound ==
    [][(/\ DeleteStep
        /\ last'.req.file_id # EmptyID /\ last'.req.file_id \notin DOMAIN files)
        => /\ last'.status = "NotFound"
           /\ files' = files
           /\ currentFileID' = currentFileID]_vars

\* A delete has been refused for an ID that is not stored, the store holding
\* one file.
C9_Witness ==
    /\ last.op = "delete" /\ last.status = "NotFound"
    /\ last.req.file_id # EmptyID /\ last.req.file_id \notin DOMAIN files
    /\ NumFiles(files) = 1

\* C10: the connections view without filters is the record sequence of the file
\* the current ID names, and is empty when no current ID is set; with no file
\* stored the connections are empty, the graph has no node and no edge, the
\* timeline has no point and start = end = 0, and the stats count 0 connections.
C10_CurrentRecords ==
    /\ (last.op = "connections" /\ last.req = NoFilter) =>
          last.out.connections =
              IF currentFileID = EmptyID THEN <<>> ELSE files[currentFileID].Connections
    /\ DOMAIN files = {} =>
          /\ last.op = "connections" => last.out.connections = <<>>
          /\ last.op = "nodes" => last.out.Nodes = <<>> /\ last.out.Edges = <<>>
          /\ last.op = "timeline" =>
                last.out.Points = <<>> /\ last.out.Start = 0 /\ last.out.End = 0
          /\ last.op = "stats" => last.out.total_connections = 0

\* The connections of a current file with records have been returned while
\* another file is stored.
C10_Witness ==
    /\ last.op = "connections" /\ last.req = NoFilter
    /\ Len(last.out.connections) = 2
    /\ NumFiles(files) = 2
    /\ \E k \in DOMAIN files : files[k].Connections # last.out.connections

\* The timeline of the store without files has been returned.
C10_EmptyStoreReached ==
    /\ last.op = "timeline" /\ DOMAIN files = {}
    /\ last.out.Points = <<>>

-----------------------------------------------------------------------------
(* Properties of the views *)

\* C11: the list GetFiles returns has exactly one summary per stored file, with
\* the file's ID, name and number of records, in non-increasing order of upload
\* time, and is_current is true for exactly the summary of the current ID.
C11_ListSummaries ==
    last.op = "files" =>
        LET list == last.out.files
        IN  /\ Len(list) = NumFiles(files)
            /\ last.out.total_files = NumFiles(files)
            /\ \A id \in DOMAIN files :
                  /\ Cardinality({i \in DOMAIN list : list[i].id = id}) = 1
                  /\ \A i \in DOMAIN list :
                        list[i].id = id =>
                            /\ list[i].filename = files[id].Filename
                            /\ list[i].upload_time = files[id].UploadTime
                            /\ list[i].connection_count = Len(files[id].Connections)
            /\ \A i, j \in DOMAIN list : i < j => list[i].upload_time >= list[j].upload_time
            /\ \A i \in DOMAIN list : list[i].is_current <=> list[i].id = currentFileID

\* Two files of different upload times have been listed, the older one current.
C11_Witness ==
    /\ last.op = "files"
    /\ Len(last.out.files) = 2
    /\ last.out.files[1].upload_time > last.out.files[2].upload_time
    /\ last.out.files[2].is_current /\ ~last.out.files[1].is_current
    /\ last.out.files[1].connection_count # last.out.files[2].connection_count

\* The records the views of the current state are computed from.
CurrentRecords == getCurrentConnections(files, currentFileID)

TimeLess(q) == q.start = "" /\ q.end = ""

\* C12: the records GetConnections returns for a protocol P and a state S (""
\* and "all" included) are the records of the protocol filter's result that the
\* state filter keeps, which are the records matching both; when the protocol
\* filter keeps nothing the result is empty.
C12_FiltersCompose ==
    (last.op = "connections" /\ TimeLess(last.req)) =>
        LET P == last.req.protocol
            S == last.req.conn_state
            first == applyFilters(CurrentRecords, [NoFilter EXCEPT !.protocol = P])
            Both(c) == /\ P \in {"", "all"} \/ c.Protocol = P
                       /\ S \in {"", "all"} \/ c.ConnState = S
        IN  /\ last.out.connections = applyFilters(first, [NoFilter EXCEPT !.conn_state = S])
            /\ last.out.connections = SelectSeq(CurrentRecords, Both)
            /\ first = <<>> => last.out.connections = <<>>

\* Two tcp records, one of them in state S0, have been filtered by both.
C12_Witness ==
    /\ last.op = "connections"
    /\ last.req = [NoFilter EXCEPT !.protocol = "tcp", !.conn_state = "S0"]
    /\ Len(CurrentRecords) = 2
    /\ Len(applyProtocolFilter(CurrentRecords, "tcp")) = 2
    /\ Len(last.out.connections) = 1

TimeOnly(q) == q.protocol = "" /\ q.conn_state = ""

\* C13: GetConnections with only the time bounds set answers 200 with all
\* records when a bound is missing or is not an integer, and otherwise with
\* exactly the records, in input order, whose timestamp cut to whole seconds
\* lies in [start, end], which are none when start > end.
C13_TimeFilter ==
    (last.op = "connections" /\ TimeOnly(last.req)) =>
        LET start == ParseInt(last.req.start)
            end == ParseInt(last.req.end)
            Within(c) == start.v <= IntOf(c.Timestamp) /\ IntOf(c.Timestamp) <= end.v
        IN  /\ last.status = "OK"
            /\ IF last.req.start = "" \/ last.req.end = "" \/ ~start.ok \/ ~end.ok
               THEN last.out.connections = CurrentRecords
               ELSE /\ last.out.connections = SelectSeq(CurrentRecords, Within)
                    /\ start.v > end.v => last.out.connections = <<>>

\* A record of timestamp -5.5 has been kept by the bounds -5 and 3, and another
\* record dropped.
C13_Witness ==
    /\ last.op = "connections"
    /\ last.req = [NoFilter EXCEPT !.start = "-5", !.end = "3"]
    /\ Len(CurrentRecords) = 2
    /\ Len(last.out.connections) = 1
    /\ last.out.connections[1].Timestamp = -(5 * NumScale + 1)

\* All records have been returned for a bound that is not an integer.
C13_UnparseableReached ==
    /\ last.op = "connections"
    /\ last.req.start = "1x"
    /\ Len(last.out.connections) = 2
    /\ \E i \in 1..2 : IntOf(last.out.connections[i].Timestamp) < 0

\* The records the graph of the last GetNodes response was built from.
GraphRecords == applyFilters(CurrentRecords, last.req)

Triple(c) == <<c.OrigHost, c.RespHost, c.Protocol>>

\* The number of the records that Keep holds of, and the sum of their bytes.
CountOf(connections, Keep(_)) == Len(SelectSeq(connections, Keep))

RECURSIVE SumOfBytes(_)
SumOfBytes(connections) ==
    IF connections = <<>> THEN 0
    ELSE TotalBytes(Head(connections)) + SumOfBytes(Tail(connections))

BytesOf(connections, Keep(_)) == SumOfBytes(SelectSeq(connections, Keep))

\* C14: the graph has exactly one edge per (origin host, responder host,
\* protocol) triple of the records, whatever the strings are; the edge's count
\* is the number of records of the triple, its total bytes their sum and its
\* weight that sum / 1000.
C14_OneEdgePerTriple ==
    last.op = "nodes" =>
        LET r == GraphRecords
            edges == last.out.Edges
            triples == {Triple(r[i]) : i \in DOMAIN r}
        IN  /\ Len(edges) = Cardinality(triples)
            /\ \A t \in triples :
                  LET Same(c) == Triple(c) = t
                  IN  \E i \in DOMAIN edges :
                          /\ <<edges[i].Source, edges[i].Target, edges[i].Protocol>> = t
                          /\ edges[i].Count = CountOf(r, Same)
                          /\ edges[i].TotalBytes = BytesOf(r, Same)
                          /\ edges[i].Weight = Weight(BytesOf(r, Same))

\* Two records of different triples have been put into one edge.
C14_MergedEdgeReached ==
    /\ last.op = "nodes" /\ last.req = NoFilter
    /\ Len(GraphRecords) = 2
    /\ Triple(GraphRecords[1]) # Triple(GraphRecords[2])
    /\ Len(last.out.Edges) = 1
    /\ last.out.Edges[1].Count = 2

\* Two records of one host pair and different protocols have given two edges.
C14_ProtocolsApartReached ==
    /\ last.op = "nodes" /\ last.req = NoFilter
    /\ Len(GraphRecords) = 2
    /\ GraphRecords[1].OrigHost = GraphRecords[2].OrigHost
    /\ GraphRecords[1].RespHost = GraphRecords[2].RespHost
    /\ GraphRecords[1].Protocol # GraphRecords[2].Protocol
    /\ Len(last.out.Edges) = 2

\* C15: the graph has exactly one node per host that is an origin or a
\* responder of the records; the node's connection count is the number of
\* records with that origin plus the number with that responder, its total
\* bytes the sum over those sightings; a record from a host to itself counts
\* twice for the node and is in an edge like any other record.
C15_OneNodePerHost ==
    last.op = "nodes" =>
        LET r == GraphRecords
            nodes == last.out.Nodes
            edges == last.out.Edges
            hosts == {r[i].OrigHost : i \in DOMAIN r} \cup {r[i].RespHost : i \in DOMAIN r}
        IN  /\ Len(nodes) = Cardinality(hosts)
            /\ \A h \in hosts :
                  LET From(c) == c.OrigHost = h
                      To(c) == c.RespHost = h
                  IN  \E i \in DOMAIN nodes :
                          /\ nodes[i].ID = h
                          /\ nodes[i].Connections = CountOf(r, From) + CountOf(r, To)
                          /\ nodes[i].TotalBytes = BytesOf(r, From) + BytesOf(r, To)
            /\ \A k \in DOMAIN r :
                  (/\ r[k].OrigHost = r[k].RespHost
                   /\ \A j \in DOMAIN r : edgeKey(r[j]) = edgeKey(r[k]) => Triple(r[j]) = Triple(r[k]))
                  => \E i \in DOMAIN edges :
                        <<edges[i].Source, edges[i].Target, edges[i].Protocol>> = Triple(r[k])

\* The node of a host with a record to itself and a record to another host.
C15_Witness ==
    /\ last.op = "nodes" /\ last.req = NoFilter
    /\ Len(GraphRecords) = 2
    /\ Len(last.out.Nodes) = 2
    /\ \E k \in DOMAIN GraphRecords : GraphRecords[k].OrigHost = GraphRecords[k].RespHost
    /\ \E i \in DOMAIN last.out.Nodes :
          /\ last.out.Nodes[i].ID = "A"
          /\ last.out.Nodes[i].Connections = 3
          /\ last.out.Nodes[i].TotalBytes = 20

\* floor(t / 10) * 10
FloorBucket(t) == (t \div timelineBucketSec) * timelineBucketSec

\* C16: every record of whole-second timestamp t, negative ones included, is
\* counted in the timeline point of timestamp floor(t / 10) * 10; every point's
\* timestamp is a multiple of 10 and at most the whole-second timestamp of the
\* records counted in it.
C16_FloorBuckets ==
    (last.op = "timeline" /\ CurrentRecords # <<>>) =>
        LET r == CurrentRecords
            points == last.out.Points
        IN  /\ \A i \in DOMAIN r :
                  \E k \in DOMAIN points :
                      points[k].Timestamp = FloorBucket(IntOf(r[i].Timestamp))
            /\ \A k \in DOMAIN points :
                  LET In(c) == FloorBucket(IntOf(c.Timestamp)) = points[k].Timestamp
                  IN  /\ points[k].Timestamp % timelineBucketSec = 0
                      /\ points[k].Count = CountOf(r, In)
                      /\ points[k].Bytes = BytesOf(r, In)
                      /\ \A i \in DOMAIN r :
                            In(r[i]) => points[k].Timestamp <= IntOf(r[i].Timestamp)

\* A record of a negative timestamp has been counted in the bucket 0.
C16_NegativeInBucketZeroReached ==
    /\ last.op = "timeline"
    /\ Len(CurrentRecords) = 1
    /\ IntOf(CurrentRecords[1].Timestamp) = -5
    /\ Len(last.out.Points) = 1
    /\ last.out.Points[1].Timestamp = 0

\* C17: for a file with records, Start and End of the timeline are the least
\* and the greatest whole-second timestamp of the records, in whatever order the
\* file holds them; they are not the timestamps of the buckets.
C17_StartEndFromRecords ==
    (last.op = "timeline" /\ CurrentRecords # <<>>) =>
        LET r == CurrentRecords
            seconds == {IntOf(r[i].Timestamp) : i \in DOMAIN r}
        IN  /\ last.out.Start \in seconds /\ \A t \in seconds : last.out.Start <= t
            /\ last.out.End \in seconds /\ \A t \in seconds : last.out.End >= t

\* The timeline of two records held in descending order of time: Start lies
\* after the first bucket's timestamp and before End.
C17_Witness ==
    /\ last.op = "timeline"
    /\ Len(CurrentRecords) = 2
    /\ CurrentRecords[1].Timestamp > CurrentRecords[2].Timestamp
    /\ last.out.Start = IntOf(CurrentRecords[2].Timestamp)
    /\ last.out.End = IntOf(CurrentRecords[1].Timestamp)
    /\ last.out.Start < last.out.End
    /\ last.out.Start > last.out.Points[1].Timestamp

\* C18: for a file with records, the time range of the stats starts at the
\* least and ends at the greatest timestamp of the records (fractions kept),
\* for every timestamp a record can have, 0, negative ones and -1 included,
\* in whatever order the file holds them; duration is end - start.
C18_StatsTimeRange ==
    (last.op = "stats" /\ CurrentRecords # <<>>) =>
        LET r == CurrentRecords
            stamps == {r[i].Timestamp : i \in DOMAIN r}
            range == last.out.time_range
        IN  /\ range.start \in stamps /\ \A t \in stamps : range.start <= t
            /\ range.end \in stamps /\ \A t \in stamps : range.end >= t
            /\ range.duration = range.end - range.start

\* The stats of a record of timestamp -1 followed by a later record: the range
\* starts at the later record.
C18_SentinelReached ==
    /\ last.op = "stats"
    /\ Len(CurrentRecords) = 2
    /\ CurrentRecords[1].Timestamp = NoTime
    /\ CurrentRecords[2].Timestamp > NoTime
    /\ last.out.time_range.start = CurrentRecords[2].Timestamp

\* The step is a graph, timeline or stats request on all records of the current
\* file that follows the same request, the store being the same.
ViewRepeated ==
    /\ last.op \in {"nodes", "timeline", "stats"}
    /\ last'.op = last.op
    /\ last'.req = last.req
    /\ last.op = "nodes" => last.req = NoFilter
    /\ files' = files
    /\ currentFileID' = currentFileID

Range(seq) == {seq[i] : i \in DOMAIN seq}

SameElements(s, t) == Len(s) = Len(t) /\ Range(s) = Range(t)

RecognizedFields ==
    {<<"UID", "uid", "string">>, <<"OrigHost", "orig_h", "string">>,
     <<"RespHost", "resp_h", "string">>, <<"Protocol", "proto", "string">>,
     <<"Service", "service", "string">>, <<"ConnState", "conn_state", "string">>,
     <<"History", "history", "string">>,
     <<"Timestamp", "ts", "float64">>, <<"Duration", "duration", "float64">>,
     <<"OrigPort", "orig_p", "int">>, <<"RespPort", "resp_p", "int">>,
     <<"IPProtocol", "ip_proto", "int">>, <<"OrigBytes", "orig_bytes", "int">>,
     <<"RespBytes", "resp_bytes", "int">>, <<"MissedBytes", "missed_bytes", "int">>,
     <<"OrigIPBytes", "orig_ip_bytes", "int">>, <<"RespIPBytes", "resp_ip_bytes", "int">>,
     <<"OrigPackets", "orig_pkts", "int">>, <<"RespPackets", "resp_pkts", "int">>,
     <<"LocalOrig", "local_orig", "bool">>, <<"LocalResp", "local_resp", "bool">>}

JsonTypeOf(type) == IF type \in {"float64", "int"} THEN "number" ELSE type

\* The field holds its zero value.
IsZero(value, type) ==
    CASE type = "string" -> value = ""
      [] type = "bool" -> value = FALSE
      [] OTHER -> value = 0

\* The field holds the JSON value v as the line gives it.
IsAsGiven(value, v, type) ==
    CASE type = "string" -> value = v.s
      [] type = "bool" -> value = v.b
      [] type = "float64" -> value = v.n
      [] type = "int" -> value * NumScale = v.n

\* The field holds the JSON value v, a number cut to its integer part when the
\* field is an int.
IsAsGivenOrTruncated(value, v, type) ==
    CASE type = "string" -> value = v.s
      [] type = "bool" -> value = v.b
      [] type = "float64" -> value = v.n
      [] type = "int" -> value = IntOf(v.n)

\* The lines of the uploaded file that are JSON objects, and the stored records.
UploadedObjects ==
    LET IsObject(line) == line.kind = "json"
    IN  SelectSeq(last.req.lines, IsObject)

StoredRecords == files[last.out.file_id].Connections

Uploaded == last.op = "upload" /\ last.status = "OK" /\ HasFile(files, last.out.file_id)

-----------------------------------------------------------------------------
(* Properties of the ingest *)

\* The records a file of the one line gives.
RecordsOfLine(line) == LoadConnectionsFromReader(<<line>>).connections

\* C21: the records stored for a file of JSON objects, lines that are not JSON
\* and blank lines, in any interleaving, are one record per JSON object, in the
\* order of the lines; the record of a line is the one the line alone gives,
\* and the other lines give none.
C21_OneRecordPerValidLine ==
    Uploaded =>
        /\ Len(StoredRecords) = Len(UploadedObjects)
        /\ \A i \in DOMAIN UploadedObjects :
              <<StoredRecords[i]>> = RecordsOfLine(UploadedObjects[i])
        /\ \A i \in DOMAIN last.req.lines :
              last.req.lines[i].kind \in {"blank", "text"} =>
                  RecordsOfLine(last.req.lines[i]) = <<>>

\* A file of a record, a line that is not JSON, a blank line and a later record
\* has been stored as the two records in this order.
C21_Witness ==
    /\ Uploaded
    /\ Len(last.req.lines) = 4 /\ Len(StoredRecords) = 2
    /\ last.req.lines[2].kind = "text" /\ last.req.lines[3].kind = "blank"
    /\ <<StoredRecords[1]>> = RecordsOfLine(last.req.lines[1])
    /\ <<StoredRecords[2]>> = RecordsOfLine(last.req.lines[4])
    /\ StoredRecords[1] # StoredRecords[2]

\* Two records have been stored in the order of their lines, the later
\* timestamp first.
C21_InputOrderReached ==
    /\ Uploaded
    /\ Len(StoredRecords) = 2
    /\ StoredRecords[1].Timestamp > StoredRecords[2].Timestamp

\* The prefixes of the local addresses, the loopback address ::1 aside.
LocalRangePrefixes == LocalPrefixes \ {"::1"}

\* C22: a node is local exactly when its host begins with one of 192.168.,
\* 10., 172.16. to 172.31., 127. and fe80::, or is the string ::1; the empty
\* string and a string that only begins with ::1 are not local.
C22_LocalExactly ==
    last.op = "nodes" =>
        \A i \in DOMAIN last.out.Nodes :
            LET host == last.out.Nodes[i].ID
            IN  last.out.Nodes[i].IsLocal <=>
                    \/ \E prefix \in LocalRangePrefixes : HasPrefix(host, prefix)
                    \/ host = "::1"

\* The node of the host ::10 has been returned as local.
C22_LongerThanLoopbackReached ==
    /\ last.op = "nodes"
    /\ \E i \in DOMAIN last.out.Nodes :
          last.out.Nodes[i].ID = "::10" /\ last.out.Nodes[i].IsLocal

\* Apart from the hosts that begin with ::1 and are longer, the nodes are
\* local as C22 says.
C22_LocalButForLoopbackPrefix ==
    last.op = "nodes" =>
        \A i \in DOMAIN last.out.Nodes :
            LET host == last.out.Nodes[i].ID
            IN  (host = "::1" \/ ~HasPrefix(host, "::1")) =>
                    (last.out.Nodes[i].IsLocal <=>
                        \/ \E prefix \in LocalRangePrefixes : HasPrefix(host, prefix)
                        \/ host = "::1")

\* C23: every edge of the graph has the service of the first record, in the
\* order of the records, of the edge's (origin, responder, protocol); the later
\* records of the edge do not change it, whatever their service is.
C23_ServiceOfFirstRecord ==
    last.op = "nodes" =>
        LET r == GraphRecords
        IN  \A k \in DOMAIN last.out.Edges :
                LET e == last.out.Edges[k]
                    of == {i \in DOMAIN r : Triple(r[i]) = <<e.Source, e.Target, e.Protocol>>}
                IN  /\ of # {}
                    /\ e.Service = r[SetMin(of)].Service

\* An edge of two records has the service of the first, which is not that of
\* the second.
C23_Witness ==
    /\ last.op = "nodes" /\ last.req = NoFilter
    /\ Len(GraphRecords) = 2
    /\ Triple(GraphRecords[1]) = Triple(GraphRecords[2])
    /\ GraphRecords[1].Service = "dns" /\ GraphRecords[2].Service = "ntp"
    /\ Len(last.out.Edges) = 1
    /\ last.out.Edges[1].Count = 2
    /\ last.out.Edges[1].Service = "dns"

\* The bucket GetTimeline counts the record in.
BucketOf(c) == GoDiv(IntOf(c.Timestamp), timelineBucketSec) * timelineBucketSec

\* The sum of the field f over the elements of seq.
RECURSIVE SumField(_, _)
SumField(seq, f) == IF seq = <<>> THEN 0 ELSE Head(seq)[f] + SumField(Tail(seq), f)

\* C24: the points of the timeline of a file with records have distinct
\* timestamps in ascending order, one point for every bucket that has a record
\* and no other; a point's count and bytes are the number and the total bytes
\* of the records of its bucket, and the counts add up to the number of records.
C24_TimelinePoints ==
    (last.op = "timeline" /\ CurrentRecords # <<>>) =>
        LET r == CurrentRecords
            points == last.out.Points
        IN  /\ \A i, j \in DOMAIN points : i < j => points[i].Timestamp < points[j].Timestamp
            /\ {points[k].Timestamp : k \in DOMAIN points} = {BucketOf(r[i]) : i \in DOMAIN r}
            /\ \A k \in DOMAIN points :
                  LET In(c) == BucketOf(c) = points[k].Timestamp
                  IN  /\ points[k].Count = CountOf(r, In)
                      /\ points[k].Bytes = BytesOf(r, In)
                      /\ points[k].Count >= 1
            /\ SumField(points, "Count") = Len(r)

\* The timeline of the records at 100 and 105.5: one point at 100 with count 2.
C24_Witness ==
    /\ last.op = "timeline"
    /\ Len(CurrentRecords) = 2
    /\ CurrentRecords[1].Timestamp # CurrentRecords[2].Timestamp
    /\ Len(last.out.Points) = 1
    /\ last.out.Points[1].Timestamp = 100
    /\ last.out.Points[1].Count = 2
    /\ last.out.Points[1].Bytes = 17
    /\ last.out.Start = 100 /\ last.out.End = 105

\* The timeline of two records of different buckets, the later record first in
\* the file: two points in ascending order.
C24_TwoPointsReached ==
    /\ last.op = "timeline"
    /\ Len(CurrentRecords) = 2
    /\ BucketOf(CurrentRecords[1]) > BucketOf(CurrentRecords[2])
    /\ Len(last.out.Points) = 2
    /\ last.out.Points[1].Timestamp < last.out.Points[2].Timestamp

\* C25: whatever the lines of the input are (JSON objects, lines that are not
\* JSON, blank lines, lines of any length), an upload whose request carries the
\* file, and a load of a file that opens, succeed and store the file.
C25_NoLineFailsIngest ==
    /\ (last.op = "upload" /\ last.req.method = "POST" /\ last.req.form = "ok") =>
          /\ last.status = "OK"
          /\ HasFile(files, last.out.file_id)
    /\ (last.op = "load" /\ last.req.exists) =>
          /\ last.status = "nil"
          /\ HasFile(files, last.out.file_id)

\* An upload of a record followed by a line longer than the scanner's buffer
\* has been answered with 400, and the store has no file.
C25_LongLineRejectedReached ==
    /\ last.op = "upload" /\ last.status = "BadRequest"
    /\ last.msg = "Failed to parse connection log file"
    /\ last.req.lines = LongFile
    /\ files = NoFiles

-----------------------------------------------------------------------------
(* Properties of the handlers' effects *)

QueryOps == {"connections", "nodes", "timeline", "stats", "files"}

\* C26: a step of GetConnections, GetNodes, GetTimeline, GetStats or GetFiles,
\* with any filters, leaves the map, every file's records and their order, and
\* the current ID as they were.
C26_QueriesChangeNothing ==
    [][last'.op \in QueryOps => files' = files /\ currentFileID' = currentFileID]_vars

\* The timeline of a file whose records are not in the order of their
\* timestamps has been returned, and the file holds them as before.
C26_Witness ==
    /\ last.op = "timeline"
    /\ Len(CurrentRecords) = 2
    /\ CurrentRecords[1].Timestamp > CurrentRecords[2].Timestamp
    /\ Len(last.out.Points) = 2

\* A filter has dropped a record from the answer and the file holds it still.
C26_FilteredReached ==
    /\ last.op = "connections" /\ last.req.protocol = "tcp"
    /\ Len(last.out.connections) = 1
    /\ Len(CurrentRecords) = 2

\* A handler that found its session in the map finds it at its next lookup.
C27_CheckedStillPresent ==
    \A p \in Procs :
        /\ procs[p].pc = "switch_lookup" => HasFile(files, procs[p].req.file_id)
        /\ procs[p].pc \in {"stats_records", "stats_file"} => HasFile(files, currentFileID)

\* No handler has read the fields of a session that is not in the map.
C27_NoNilRead == last.status # "panic"

\* The current_file of a stats answer is the session that was summarized.
C27_StatsOfCurrent ==
    (last.op = "stats" /\ last.status = "OK" /\ last.out.current_file # EmptyID) =>
        last.out.summarized = last.out.current_file

\* C27: under every interleaving of stats and switch handlers with delete and
\* upload handlers, a session found by a handler's check is found by its next
\* lookup, no handler reads a session that has left the map, and stats report
\* as current_file the session they summarized.
C27_NoTornReads ==
    /\ C27_CheckedStillPresent
    /\ C27_NoNilRead
    /\ C27_StatsOfCurrent

\* A switch has panicked on the session it had found a moment before.
C27_SwitchPanicReached ==
    /\ last.op = "switch" /\ last.status = "panic"
    /\ ~HasFile(files, last.req.file_id)

\* Stats have summarized one session and named another as current_file.
C27_StatsMismatchReached ==
    /\ last.op = "stats" /\ last.status = "OK"
    /\ last.out.summarized # EmptyID /\ last.out.current_file # EmptyID
    /\ last.out.summarized # last.out.current_file

\* Stats have panicked between the check and the lookup.
C27_StatsPanicReached == last.op = "stats" /\ last.status = "panic"

\* The stored files with the name and the second of the ingest being made.
SamePair == {k \in DOMAIN files :
                files[k].Filename = last'.out.filename /\ files[k].UploadTime = now}

\* C28: an ingest with the (name, second) of a stored file gets that file's ID
\* and replaces the entry: the keys of the map and so their number stay, the
\* entry holds the new records and every other entry is as it was, so that no
\* ID leads to the earlier records; total_files is the number of files there
\* was, and the ID is the current ID.
C28_SamePairReplaces ==
    [][(IngestStep /\ SamePair # {}) =>
        LET id == last'.out.file_id
        IN  /\ SamePair = {id}
            /\ DOMAIN files' = DOMAIN files
            /\ NumFiles(files') = NumFiles(files)
            /\ files'[id].Connections
                  = LoadConnectionsFromReader(last'.req.lines).connections
            /\ OthersKept(id)
            /\ last'.out.total_files = NumFiles(files)
            /\ currentFileID' = id]_vars

\* An ingest that replaces a file holding other records than its own.
C28_ReplacementStep ==
    /\ IngestStep /\ SamePair # {}
    /\ \E k \in SamePair : files[k].Connections # files'[k].Connections

\* No ingest replaces a file: refuted when such a step is reachable.
C28_NeverReplaces == [][~C28_ReplacementStep]_vars

\* The second file of the store has been ingested again within its second, with
\* no record: two files stay, and the ID of the ingest leads to no record.
C28_Witness ==
    /\ Ingested /\ last.op = "upload"
    /\ last.out.file_id = generateFileID(last.out.filename, now)
    /\ last.out.total_files = MaxFiles /\ NumFiles(files) = MaxFiles
    /\ currentFileID = last.out.file_id
    /\ last.req.lines = JunkFile
    /\ files[last.out.file_id].Connections = <<>>
    /\ \A k \in DOMAIN files : files[k].UploadTime = now

\* An ingest has been refused or has returned an error.
IngestFailed == last.op \in {"upload", "load"} /\ last.status \notin {"OK", "nil"}

\* C29: an ingest that fails, by its method, its form, its missing file part, an
\* error of the reader or a path that does not open, adds no file and leaves the
\* map and the current ID as they were.
C29_FailedIngestChangesNothing ==
    [][IngestFailed' => files' = files /\ currentFileID' = currentFileID]_vars

\* An upload has failed on a line the reader refuses, after a line that parses,
\* next to a stored file: the store holds that file alone, with its two records.
C29_Witness ==
    /\ IngestFailed /\ last.op = "upload"
    /\ last.msg = "Failed to parse connection log file"
    /\ last.req.lines = LongFile
    /\ NumFiles(files) = 1 /\ HasFile(files, currentFileID)
    /\ Len(files[currentFileID].Connections) = 2

\* Each way an ingest fails has been taken with a file in the store.
C29_MethodReached == IngestFailed /\ last.status = "MethodNotAllowed" /\ files # NoFiles
C29_FormReached == IngestFailed /\ last.msg = "Failed to parse form data" /\ files # NoFiles
C29_NoFilePartReached ==
    IngestFailed /\ last.msg = "Failed to get file from request" /\ files # NoFiles
C29_LoadReadErrorReached == IngestFailed /\ last.status = "errErrorReadingData" /\ files # NoFiles
C29_LoadOpenErrorReached ==
    IngestFailed /\ last.status = "errFailedToOpenLogFile" /\ files # NoFiles

-----------------------------------------------------------------------------
(* Properties of the views taken together *)

\* The sum of the values of a map of counts.
RECURSIVE SumValues(_)
SumValues(m) ==
    IF DOMAIN m = {} THEN 0
    ELSE LET k == CHOOSE k \in DOMAIN m : TRUE
         IN  m[k] + SumValues([x \in DOMAIN m \ {k} |-> m[x]])

\* C30: for the records of the current file the graph, the timeline and the
\* statistics agree: as many nodes as unique hosts; the edge counts, the point
\* counts, the per-protocol counts and the per-state counts each add up to the
\* number of records; the edges' total bytes and the points' bytes each add up
\* to the statistics' total bytes; the nodes' connection counts add up to twice
\* the number of records.
C30_ViewsAgree ==
    LET r == CurrentRecords
        st == processConnectionStats(r)
        t == Timeline(r)
    IN  /\ \A g \in buildNodesAndEdges(r) :
              /\ Len(g.Nodes) = Cardinality(st.uniqueIPs)
              /\ SumField(g.Edges, "Count") = Len(r)
              /\ SumField(g.Edges, "TotalBytes") = st.totalBytes
              /\ SumField(g.Nodes, "Connections") = 2 * Len(r)
        /\ SumField(t.Points, "Count") = Len(r)
        /\ SumField(t.Points, "Bytes") = st.totalBytes
        /\ SumValues(st.protocols) = Len(r)
        /\ SumValues(st.connStates) = Len(r)

\* The statistics of two records of two protocols between two hosts, with bytes,
\* in one timeline bucket and on two edges, have been returned.
C30_Witness ==
    /\ last.op = "stats"
    /\ last.out.total_connections = 2
    /\ last.out.unique_ip_count = 2
    /\ last.out.total_bytes > 0
    /\ Cardinality(DOMAIN last.out.protocols) = 2
    /\ Len(Timeline(CurrentRecords).Points) = 1
    /\ \A g \in buildNodesAndEdges(CurrentRecords) : Len(g.Edges) = 2 /\ Len(g.Nodes) = 2

\* A record from a host to itself is stored: one node, counted twice.
C30_SelfLoopReached ==
    /\ last.op = "nodes" /\ last.req = NoFilter
    /\ Len(CurrentRecords) = 1
    /\ Len(last.out.Nodes) = 1
    /\ last.out.Nodes[1].Connections = 2

====
